---- MODULE Spec2Model ----
(***************************************************************************)
(* A model of pubmed_fetcher (src/src/pubmed_fetcher/fetcher.py): the      *)
(* search / detail-fetch run of fetcher, the per-article normalisation and *)
(* row building of fetch_paper_details, the classifier                     *)
(* identify_non_academic_authors and the regular-expression helpers.       *)
(*                                                                         *)
(* A Python str is a sequence of one-character strings.  Python's None is  *)
(* the one-element sequence None, whose element is no character, so that   *)
(* every value a field can hold is a sequence and can be compared.         *)
(***************************************************************************)
EXTENDS Integers, Sequences, FiniteSets, TLC

VARIABLES
    pc,         \* position of the run of main/fetcher
    requests,   \* the HTTP requests issued so far, in order
    pmids,      \* the ID list the search returned
    root,       \* the parsed efetch payload: a sequence of raw articles
    papers,     \* the value fetcher returned
    output,     \* what save_to_csv did with it
    article,    \* one raw article handed to the loop body
    row,        \* the outcome of the loop body for it
    row2,       \* the outcome of a second pass over the same article
    authors,    \* an author list handed to identify_non_academic_authors
    result,     \* what it returned
    text,       \* a string handed to extract_email
    email       \* what it returned

vars == <<pc, requests, pmids, root, papers, output,
          article, row, row2, authors, result, text, email>>

----------------------------------------------------------------------------
(* Characters and strings *)

Lower == {"a","b","c","d","e","f","g","h","i","j","k","l","m",
          "n","o","p","q","r","s","t","u","v","w","x","y","z"}

Upper == {"A","B","C","D","E","F","G","H","I","J","K","L","M",
          "N","O","P","Q","R","S","T","U","V","W","X","Y","Z"}

Digit == {"0","1","2","3","4","5","6","7","8","9"}

Letter == Lower \cup Upper

None == <<"<None>">>

Raised == <<"<TypeError>">>

RECURSIVE Concat(_)
Concat(parts) ==
    IF parts = <<>> THEN <<>> ELSE Head(parts) \o Concat(Tail(parts))

\* sep.join(items)
RECURSIVE Join(_, _)
Join(sep, items) ==
    IF items = <<>> THEN <<>>
    ELSE IF Len(items) = 1 THEN items[1]
    ELSE items[1] \o sep \o Join(sep, Tail(items))

\* kw in s
Contains(s, kw) ==
    \E i \in 1..(Len(s) - Len(kw) + 1) : SubSeq(s, i, i + Len(kw) - 1) = kw

StartsAt(s, pos, lit) ==
    /\ pos + Len(lit) - 1 <= Len(s)
    /\ SubSeq(s, pos, pos + Len(lit) - 1) = lit

----------------------------------------------------------------------------
(* Regular expressions, matched the way Python's re matches them: a        *)
(* pattern is a sequence of items, each a character class with a greedy    *)
(* repetition, or an ordered alternation of literals; search takes the     *)
(* leftmost start and, from it, the first match in backtracking order.     *)

Cls(set, min, unbounded) ==
    [kind |-> "class", set |-> set, neg |-> FALSE, min |-> min,
     unbounded |-> unbounded, alts |-> <<>>]

\* "." : any character but a newline, once
Dot ==
    [kind |-> "class", set |-> {"\n"}, neg |-> TRUE, min |-> 1,
     unbounded |-> FALSE, alts |-> <<>>]

Lit(c) == Cls({c}, 1, FALSE)

Alt(alts) ==
    [kind |-> "alt", set |-> {}, neg |-> FALSE, min |-> 1,
     unbounded |-> FALSE, alts |-> alts]

InClass(item, c) == IF item.neg THEN c \notin item.set ELSE c \in item.set

\* how many characters from pos on lie in the item's class
RECURSIVE Run(_, _, _)
Run(item, s, pos) ==
    IF pos <= Len(s) /\ InClass(item, s[pos]) THEN 1 + Run(item, s, pos + 1)
    ELSE 0

NoMatch == 0

\* The end (the index after the last character) of the first match of
\* items k.. of re at pos, or NoMatch.
RECURSIVE MatchFrom(_, _, _, _)
RECURSIVE TryCount(_, _, _, _, _)
RECURSIVE TryAlt(_, _, _, _, _)

TryCount(re, k, s, pos, n) ==
    IF n < re[k].min THEN NoMatch
    ELSE LET r == MatchFrom(re, k + 1, s, pos + n)
         IN IF r # NoMatch THEN r ELSE TryCount(re, k, s, pos, n - 1)

TryAlt(re, k, s, pos, j) ==
    IF j > Len(re[k].alts) THEN NoMatch
    ELSE LET r == IF StartsAt(s, pos, re[k].alts[j])
                  THEN MatchFrom(re, k + 1, s, pos + Len(re[k].alts[j]))
                  ELSE NoMatch
         IN IF r # NoMatch THEN r ELSE TryAlt(re, k, s, pos, j + 1)

MatchFrom(re, k, s, pos) ==
    IF k > Len(re) THEN pos
    ELSE IF re[k].kind = "alt" THEN TryAlt(re, k, s, pos, 1)
    ELSE LET run == Run(re[k], s, pos)
             top == IF re[k].unbounded \/ run < re[k].min THEN run
                    ELSE re[k].min
         IN TryCount(re, k, s, pos, top)

\* pattern.search(s): <<start, end>> of the leftmost match, or <<>>
RECURSIVE SearchFrom(_, _, _)
SearchFrom(re, s, start) ==
    IF start > Len(s) + 1 THEN <<>>
    ELSE LET e == MatchFrom(re, 1, s, start)
         IN IF e # NoMatch THEN <<start, e>> ELSE SearchFrom(re, s, start + 1)

Search(re, s) == SearchFrom(re, s, 1)

\* match.group(0)
Group0(s, m) == SubSeq(s, m[1], m[2] - 1)

LocalChars == Letter \cup Digit \cup {".", "_", "%", "+", "-"}

DomainChars == Letter \cup Digit \cup {".", "-"}

\* r"[a-zA-Z0-9._%+-]+@[a-zA-Z0-9.-]+\\.[a-zA-Z]{2,}" : in a raw string
\* "\\." is an escaped backslash followed by an unescaped dot.
email_pattern ==
    << Cls(LocalChars, 1, TRUE), Lit("@"), Cls(DomainChars, 1, TRUE),
       Lit("\\"), Dot, Cls(Letter, 2, TRUE) >>

extract_email(affiliation) ==
    LET m == Search(email_pattern, affiliation)
    IN IF m # <<>> THEN Group0(affiliation, m) ELSE <<>>

----------------------------------------------------------------------------
(* identify_non_academic_authors *)

company_keywords ==
    << <<"I","n","c">>, <<"L","t","d">>, <<"L","L","C">>,
       <<"C","o","r","p","o","r","a","t","i","o","n">>,
       <<"P","h","a","r","m","a">>, <<"B","i","o","t","e","c","h">>,
       <<"C","o","m","p","a","n","y">>,
       <<"G","e","n","e","n","t","e","c","h">>, <<"P","f","i","z","e","r">>,
       <<"N","o","v","a","r","t","i","s">>, <<"R","o","c","h","e">>,
       <<"A","s","t","r","a","Z","e","n","e","c","a">>,
       <<"M","e","r","c","k">> >>

academic_keywords ==
    << <<"U","n","i","v","e","r","s","i","t","y">>,
       <<"I","n","s","t","i","t","u","t","e">>,
       <<"C","o","l","l","e","g","e">>, <<"H","o","s","p","i","t","a","l">>,
       <<"M","e","d","i","c","a","l"," ","S","c","h","o","o","l">> >>

\* r"@([a-zA-Z0-9.-]+)\\.(com|net|org|co|biz)"
email_company_patterns ==
    << Lit("@"), Cls(DomainChars, 1, TRUE), Lit("\\"), Dot,
       Alt(<< <<"c","o","m">>, <<"n","e","t">>, <<"o","r","g">>,
              <<"c","o">>, <<"b","i","z">> >>) >>

\* any(kw in s for kw in keywords)
AnyKeyword(keywords, s) ==
    \E k \in 1..Len(keywords) : Contains(s, keywords[k])

\* the condition of the comprehension of line 107
IsNonAcademic(author) ==
    \/ /\ AnyKeyword(company_keywords, author.affiliation)
       /\ ~AnyKeyword(academic_keywords, author.affiliation)
    \/ Search(email_company_patterns, author.email) # <<>>

\* [author for author in authors if ...]
RECURSIVE Filter(_)
Filter(as) ==
    IF as = <<>> THEN <<>>
    ELSE IF IsNonAcademic(Head(as)) THEN <<Head(as)>> \o Filter(Tail(as))
    ELSE Filter(Tail(as))

\* as it would be if a repeated author were kept once
RECURSIVE KeepFirsts(_, _)
KeepFirsts(as, seen) ==
    IF as = <<>> THEN <<>>
    ELSE IF Head(as) \in seen THEN KeepFirsts(Tail(as), seen)
    ELSE <<Head(as)>> \o KeepFirsts(Tail(as), seen \cup {Head(as)})

identify_non_academic_authors_unique(as) == KeepFirsts(Filter(as), {})

identify_non_academic_authors(as) == Filter(as)

----------------------------------------------------------------------------
(* The body of the loop of fetch_paper_details, lines 47-82.               *)
(*                                                                         *)
(* An element found by find() is [present |-> TRUE, text |-> its text or   *)
(* None]; find() returning None is Absent.  A raw author holds its         *)
(* ForeName, its LastName and the texts of its AffiliationInfo/Affiliation *)
(* elements in document order; a raw article holds its PMID, ArticleTitle, *)
(* PubDate/Year and its Author elements in document order.                 *)

Absent == [present |-> FALSE, text |-> None]

Elem(t) == [present |-> TRUE, text |-> t]

\* elem.text if elem is not None else default
TextOr(elem, default) == IF elem.present THEN elem.text ELSE default

\* what an f-string makes of a value
Str(v) == IF v = None THEN <<"N","o","n","e">> ELSE v

\* author.find("AffiliationInfo/Affiliation")
FirstAffiliation(a) == IF a.affs = <<>> THEN Absent ELSE Elem(a.affs[1])

\* lines 62-66; extract_email(None) is a TypeError
AuthorRaises(a) == TextOr(FirstAffiliation(a), <<>>) = None

AuthorName(a) ==
    IF a.fore.present /\ a.last.present
    THEN Str(a.fore.text) \o <<" ">> \o Str(a.last.text)
    ELSE <<"U","n","k","n","o","w","n">>

NormalizeAuthor(a) ==
    [name        |-> AuthorName(a),
     affiliation |-> TextOr(FirstAffiliation(a), <<>>),
     email       |-> extract_email(TextOr(FirstAffiliation(a), <<>>))]

\* article.findall(".//AffiliationInfo/Affiliation"), as texts
RECURSIVE AllAffiliations(_)
AllAffiliations(as) ==
    IF as = <<>> THEN <<>> ELSE Head(as).affs \o AllAffiliations(Tail(as))

\* lines 92-99 over the affiliation texts: the first match, "" when there
\* is none, Raised when a text before the first match is None
RECURSIVE FirstEmail(_)
FirstEmail(affs) ==
    IF affs = <<>> THEN <<>>
    ELSE IF Head(affs) = None THEN Raised
    ELSE LET m == Search(email_pattern, Head(affs))
         IN IF m # <<>> THEN Group0(Head(affs), m) ELSE FirstEmail(Tail(affs))

extract_corresponding_author_email(art) ==
    FirstEmail(AllAffiliations(art.authors))

\* every order in which the elements of a set can be iterated
RECURSIVE Orders(_)
Orders(S) ==
    IF S = {} THEN {<<>>}
    ELSE UNION {{<<x>> \o o : o \in Orders(S \ {x})} : x \in S}

Range(seq) == {seq[i] : i \in 1..Len(seq)}

\* [a["name"] for a in non_academic_authors]
Names(as) == [i \in 1..Len(as) |-> as[i].name]

\* [a["affiliation"] for a in non_academic_authors]
Affiliations(as) == [i \in 1..Len(as) |-> as[i].affiliation]

\* the list authors of lines 56-66
NormalizeAuthors(raw) == [i \in 1..Len(raw) |-> NormalizeAuthor(raw[i])]

CommaSpace == <<",", " ">>

NamesField(non_academic_authors) ==
    Join(CommaSpace, Names(non_academic_authors))

\* as it would be without set(): every affiliation, repeated or not
AffiliationsFields_list(non_academic_authors) ==
    {Join(CommaSpace, Affiliations(non_academic_authors))}

\* ", ".join(set([...])): the iteration order of a set of str is not fixed
AffiliationsFields(non_academic_authors) ==
    {Join(CommaSpace, o) : o \in Orders(Range(Affiliations(non_academic_authors)))}

Skipped == [kind |-> "skipped"]

RaisedTypeError == [kind |-> "raised"]

HasRow(non_academic_authors) == non_academic_authors # <<>>

\* The outcomes of one pass of the loop body: it raises, it skips the
\* article, or it appends a row.
LoopBody(art) ==
    IF \E i \in 1..Len(art.authors) : AuthorRaises(art.authors[i])
    THEN {RaisedTypeError}
    ELSE LET auths == NormalizeAuthors(art.authors)
             non_academic_authors == identify_non_academic_authors(auths)
         IN IF ~HasRow(non_academic_authors) THEN {Skipped}
            ELSE IF extract_corresponding_author_email(art) = Raised
            THEN {RaisedTypeError}
            ELSE {[kind     |-> "row",
                   PubmedID |-> TextOr(art.pmid, <<"N","/","A">>),
                   Title    |-> TextOr(art.title, <<"N","/","A">>),
                   PublicationDate |-> TextOr(art.year, <<"N","/","A">>),
                   NonAcademicAuthors |-> NamesField(non_academic_authors),
                   CompanyAffiliations |-> f,
                   CorrespondingAuthorEmail |->
                       extract_corresponding_author_email(art)]
                  : f \in AffiliationsFields(non_academic_authors)}

----------------------------------------------------------------------------
(* The inputs the specifications draw from *)

MaxParts == 4

MaxAuthors == 2

MaxArticles == 2

\* all sequences over S of length at most n
RECURSIVE SeqsUpTo(_, _)
SeqsUpTo(S, n) ==
    IF n = 0 THEN {<<>>}
    ELSE LET shorter == SeqsUpTo(S, n - 1)
         IN shorter \cup {<<x>> \o q : x \in S, q \in {r \in shorter : Len(r) = n - 1}}

\* pieces of affiliation text; a text is up to MaxParts of them in a row
EmailParts ==
    { <<"D","e","p","a","r","t","m","e","n","t"," ","o","f"," ","O","n","c","o","l","o","g","y",","," ","G","e","n","e","n","t","e","c","h"," ","I","n","c",".",","," ","U","S","A","."," ">>, <<"N","o"," ","e","m","a","i","l"," ","h","e","r","e">>,
      <<"j","o","h","n",".","d","o","e">>, <<"@">>, <<"g","e","n","e","n","t","e","c","h">>, <<".","c","o","m">>, <<"\\",".","c","o","m">>, <<".","c">>, <<" ">> }

EmailTexts == {Concat(q) : q \in SeqsUpTo(EmailParts, MaxParts)}

AcademicParts == { <<>>, <<"H","a","r","v","a","r","d"," ","U","n","i","v","e","r","s","i","t","y">>, <<"H","A","R","V","A","R","D"," ","U","N","I","V","E","R","S","I","T","Y">> }

CompanyParts == { <<>>, <<"G","e","n","e","n","t","e","c","h"," ","I","n","c",".">>, <<"g","e","n","e","n","t","e","c","h"," ","i","n","c",".">> }

SampleEmails ==
    { <<>>, <<"j","a","n","e","@","h","a","r","v","a","r","d",".","e","d","u">>, <<"j","o","h","n",".","d","o","e","@","g","e","n","e","n","t","e","c","h",".","c","o","m">>, <<"j",".","r","o","e","@","g","m","a","i","l","\\",".","c","o","m">> }

\* an affiliation naming an academic body, a company, both or neither
Affiliation(a, c) ==
    IF a = <<>> THEN c ELSE IF c = <<>> THEN a ELSE a \o <<",", " ">> \o c

AuthorSamples ==
    { [name |-> <<"J","o","h","n"," ","D","o","e">>, affiliation |-> Affiliation(a, c), email |-> e]
      : a \in AcademicParts, c \in CompanyParts, e \in SampleEmails }

NameSamples ==
    { <<Elem(<<"J","o","h","n">>), Elem(<<"D","o","e">>)>>, <<Elem(<<"J","a","n","e">>), Absent>>, <<Elem(None), Elem(<<"R","o","e">>)>> }

AffiliationSamples ==
    { <<>>, <<None>>, << <<"G","e","n","e","n","t","e","c","h"," ","I","n","c",".">> >>, << <<"P","f","i","z","e","r"," ","I","n","c",","," ","b","o","b","@","p","f","i","z","e","r","\\",".","c","o","m">> >>,
      << <<"H","a","r","v","a","r","d"," ","U","n","i","v","e","r","s","i","t","y",","," ","j","a","n","e","@","h","a","r","v","a","r","d","\\",".","e","d","u">> >>,
      << <<"R","o","c","h","e">>, <<"B","a","s","e","l"," ","I","n","s","t","i","t","u","t","e",","," ","r","@","r","o","c","h","e","\\",".","c","h">> >> }

RawAuthorSamples ==
    { [fore |-> n[1], last |-> n[2], affs |-> f]
      : n \in NameSamples, f \in AffiliationSamples }

HeaderSamples ==
    { <<Elem(<<"1","0","1">>), Elem(<<"T","i","t","l","e">>), Elem(<<"2","0","2","4">>)>>, <<Absent, Elem(None), Absent>> }

RowArticles ==
    { [pmid |-> h[1], title |-> h[2], year |-> h[3], authors |-> as]
      : h \in HeaderSamples, as \in SeqsUpTo(RawAuthorSamples, MaxAuthors) }

RawAuthor(fore, last, affs) ==
    [fore |-> Elem(fore), last |-> Elem(last), affs |-> affs]

\* the articles an efetch payload of the run is made of
BatchArticles ==
    { [pmid |-> Elem(<<"1">>), title |-> Elem(<<"A">>), year |-> Elem(<<"2","0","2","4">>),
       authors |-> << RawAuthor(<<"J","o","h","n">>, <<"D","o","e">>, << <<"G","e","n","e","n","t","e","c","h"," ","I","n","c",".">> >>),
                      RawAuthor(<<"J","a","n","e">>, <<"S","m","i","t","h">>, << <<"H","a","r","v","a","r","d"," ","U","n","i","v","e","r","s","i","t","y">> >>) >>],
      [pmid |-> Elem(<<"2">>), title |-> Elem(<<"B">>), year |-> Absent,
       authors |-> << RawAuthor(<<"J","a","n","e">>, <<"S","m","i","t","h">>, << <<"H","a","r","v","a","r","d"," ","U","n","i","v","e","r","s","i","t","y">> >>) >>],
      [pmid |-> Elem(<<"3">>), title |-> Elem(<<"C">>), year |-> Elem(<<"2","0","2","3">>),
       authors |-> << RawAuthor(<<"A","l">>, <<"R","o","e">>, << <<"P","f","i","z","e","r"," ","I","n","c">> >>),
                      RawAuthor(<<"B","o">>, <<"P","o","e">>, << <<"M","e","r","c","k">> >>) >>],
      [pmid |-> Elem(<<"4">>), title |-> Elem(<<"D">>), year |-> Elem(<<"2","0","2","2">>),
       authors |-> << RawAuthor(<<"C","y">>, <<"L","e","e">>, <<None>>) >>],
      [pmid |-> Elem(<<"5">>), title |-> Elem(<<"E">>), year |-> Elem(<<"2","0","2","1">>),
       authors |-> << >>],
      [pmid |-> Elem(<<"6">>), title |-> Elem(<<"F">>), year |-> Elem(<<"2","0","2","0">>),
       authors |-> << RawAuthor(<<"D","i">>, <<"N","g">>, << <<"R","o","c","h","e">>, None >>) >>] }

----------------------------------------------------------------------------
(* The run of main: fetcher, fetch_paper_details, save_to_csv *)

retmax == 10

Min(a, b) == IF a < b THEN a ELSE b

Request(url, outcome) == [url |-> url, outcome |-> outcome]

NoOutput == [kind |-> "none", rows |-> <<>>]

NoRowYet == [kind |-> "none"]

NoArticle == [pmid |-> Absent, title |-> Absent, year |-> Absent, authors |-> <<>>]

NoResult == [called |-> FALSE, value |-> <<>>]

IdleRun ==
    /\ pc = "idle" /\ requests = <<>> /\ pmids = <<>> /\ root = <<>>
    /\ papers = <<>> /\ output = NoOutput

IdleRow == article = NoArticle /\ row = NoRowYet /\ row2 = NoRowYet

IdleClassify == authors = <<>> /\ result = NoResult

IdleEmail == text = <<>> /\ email = NoResult

OtherVars == <<article, row, row2, authors, result, text, email>>

\* the rows the loop of lines 47-82 leaves in papers, or the TypeError
\* that ends it
RECURSIVE Loop(_)
Loop(arts) ==
    IF arts = <<>> THEN {[raised |-> FALSE, rows |-> <<>>]}
    ELSE { IF o.kind = "raised" THEN [raised |-> TRUE, rows |-> <<>>]
           ELSE IF rest.raised THEN rest
           ELSE IF o.kind = "skipped" THEN rest
           ELSE [raised |-> FALSE, rows |-> <<o>> \o rest.rows]
           : o \in LoopBody(Head(arts)), rest \in Loop(Tail(arts)) }

\* lines 17-18: requests.get or raise_for_status raises a RequestException,
\* caught on line 22
SearchFails ==
    /\ pc = "start"
    /\ \E o \in {"neterror", "httperror"} :
           requests' = Append(requests, Request("esearch", o))
    /\ papers' = <<>>
    /\ pc' = "returned"
    /\ UNCHANGED <<pmids, root, output, OtherVars>>

\* line 19: the body is no JSON; the error response.json() raises is a
\* RequestException in some versions of requests and a ValueError in others
SearchBadPayload ==
    /\ pc = "start"
    /\ requests' = Append(requests, Request("esearch", "badpayload"))
    /\ \/ papers' = <<>> /\ pc' = "returned"
       \/ papers' = papers /\ pc' = "crashed"
    /\ UNCHANGED <<pmids, root, output, OtherVars>>

\* lines 17-21: the search answers with at most retmax IDs
SearchOk ==
    /\ pc = "start"
    /\ requests' = Append(requests, Request("esearch", "ok"))
    /\ \E n \in 0..Min(MaxArticles, retmax) : pmids' = [i \in 1..n |-> i]
    /\ pc' = "details"
    /\ UNCHANGED <<root, papers, output, OtherVars>>

\* as it would be without the guard of lines 28-30 (as in utils.py): the
\* detail fetch is issued for an empty ID list
NoIds_fetches ==
    /\ pc = "details"
    /\ pmids = <<>>
    /\ requests' = Append(requests, Request("efetch", "ok"))
    /\ papers' = <<>>
    /\ pc' = "returned"
    /\ UNCHANGED <<pmids, root, output, OtherVars>>

\* lines 28-30
NoIds ==
    /\ pc = "details"
    /\ pmids = <<>>
    /\ papers' = <<>>
    /\ pc' = "returned"
    /\ UNCHANGED <<requests, pmids, root, output, OtherVars>>

\* as it would be if the except clause of line 42 were missing
DetailFails_uncaught ==
    /\ pc = "details"
    /\ pmids # <<>>
    /\ \E o \in {"neterror", "httperror"} :
           requests' = Append(requests, Request("efetch", o))
    /\ pc' = "crashed"
    /\ UNCHANGED <<pmids, root, papers, output, OtherVars>>

\* lines 38-44
DetailFails ==
    /\ pc = "details"
    /\ pmids # <<>>
    /\ \E o \in {"neterror", "httperror"} :
           requests' = Append(requests, Request("efetch", o))
    /\ papers' = <<>>
    /\ pc' = "returned"
    /\ UNCHANGED <<pmids, root, output, OtherVars>>

\* line 41: ET.fromstring raises a ParseError, which no except clause catches
DetailUnparseable ==
    /\ pc = "details"
    /\ pmids # <<>>
    /\ requests' = Append(requests, Request("efetch", "badpayload"))
    /\ pc' = "crashed"
    /\ UNCHANGED <<pmids, root, papers, output, OtherVars>>

\* lines 38-84
DetailOk ==
    /\ pc = "details"
    /\ pmids # <<>>
    /\ requests' = Append(requests, Request("efetch", "ok"))
    /\ \E batch \in SeqsUpTo(BatchArticles, Len(pmids)) :
         /\ root' = batch
         /\ \E o \in Loop(batch) :
              IF o.raised THEN papers' = papers /\ pc' = "crashed"
              ELSE papers' = o.rows /\ pc' = "returned"
    /\ UNCHANGED <<pmids, output, OtherVars>>

\* lines 131-132 and 109-122
save_to_csv ==
    /\ pc = "returned"
    /\ \E filename \in BOOLEAN :
         output' = IF papers = <<>> THEN [kind |-> "message", rows |-> <<>>]
                   ELSE IF filename THEN [kind |-> "csv", rows |-> papers]
                   ELSE [kind |-> "console", rows |-> papers]
    /\ pc' = "done"
    /\ UNCHANGED <<requests, pmids, root, papers, OtherVars>>

Init ==
    /\ pc = "start" /\ requests = <<>> /\ pmids = <<>> /\ root = <<>>
    /\ papers = <<>> /\ output = NoOutput
    /\ IdleRow /\ IdleClassify /\ IdleEmail

Next ==
    \/ SearchFails
    \/ SearchBadPayload
    \/ SearchOk
    \/ NoIds
    \/ DetailFails
    \/ DetailUnparseable
    \/ DetailOk
    \/ save_to_csv

Spec == Init /\ [][Next]_vars

----------------------------------------------------------------------------
(* One pass of the loop body over one article *)

InitRow ==
    /\ IdleRun /\ IdleClassify /\ IdleEmail
    /\ article \in RowArticles
    /\ row = NoRowYet
    /\ row2 = NoRowYet

BuildRow ==
    /\ row = NoRowYet
    /\ row' \in LoopBody(article)
    /\ UNCHANGED <<pc, requests, pmids, root, papers, output,
                   article, row2, authors, result, text, email>>

SpecRow == InitRow /\ [][BuildRow]_vars

----------------------------------------------------------------------------
(* Two passes of the loop body over the same article.  The iteration      *)
(* order of the set of line 80 is fixed by the interpreter's string hash, *)
(* which is seeded anew at every start of the interpreter: a second pass  *)
(* in the same interpreter iterates the same set in the same order, a     *)
(* pass in another run of the program in any order.                       *)

RebuildSameProcess ==
    /\ row # NoRowYet
    /\ row2 = NoRowYet
    /\ row2' = row
    /\ UNCHANGED <<pc, requests, pmids, root, papers, output,
                   article, row, authors, result, text, email>>

RebuildNewProcess ==
    /\ row # NoRowYet
    /\ row2 = NoRowYet
    /\ row2' \in LoopBody(article)
    /\ UNCHANGED <<pc, requests, pmids, root, papers, output,
                   article, row, authors, result, text, email>>

NextRebuild ==
    \/ BuildRow
    \/ RebuildSameProcess
    \/ RebuildNewProcess

SpecRebuild == InitRow /\ [][NextRebuild]_vars

----------------------------------------------------------------------------
(* One call of identify_non_academic_authors *)

InitClassify ==
    /\ IdleRun /\ IdleRow /\ IdleEmail
    /\ authors \in SeqsUpTo(AuthorSamples, MaxAuthors)
    /\ result = NoResult

Identify ==
    /\ ~result.called
    /\ result' = [called |-> TRUE, value |-> identify_non_academic_authors(authors)]
    /\ UNCHANGED <<pc, requests, pmids, root, papers, output,
                   article, row, row2, authors, text, email>>

SpecClassify == InitClassify /\ [][Identify]_vars

----------------------------------------------------------------------------
(* One call of extract_email *)

InitEmail ==
    /\ IdleRun /\ IdleRow /\ IdleClassify
    /\ text \in EmailTexts
    /\ email = NoResult

ExtractEmail ==
    /\ ~email.called
    /\ email' = [called |-> TRUE, value |-> extract_email(text)]
    /\ UNCHANGED <<pc, requests, pmids, root, papers, output,
                   article, row, row2, authors, result, text>>

SpecEmail == InitEmail /\ [][ExtractEmail]_vars

----------------------------------------------------------------------------
(* Properties of extract_email *)

\* r"[a-zA-Z0-9._%+-]+@[a-zA-Z0-9.-]+\.[a-zA-Z]{2,}" : the pattern of
\* utils.py, local-part '@' domain '.' extension
standard_email_pattern ==
    << Cls(LocalChars, 1, TRUE), Lit("@"), Cls(DomainChars, 1, TRUE),
       Lit("."), Cls(Letter, 2, TRUE) >>

FirstStandardEmail(s) ==
    LET m == Search(standard_email_pattern, s)
    IN IF m # <<>> THEN Group0(s, m) ELSE <<>>

\* C5: extract_email returns the leftmost substring of the form
\* local-part '@' domain '.' extension of its input, and the empty string
\* when the input holds none.
C5_ExtractEmailFirstAddress ==
    email.called => email.value = FirstStandardEmail(text)

----------------------------------------------------------------------------
(* Properties of identify_non_academic_authors *)

UpperSeq == <<"A","B","C","D","E","F","G","H","I","J","K","L","M",
              "N","O","P","Q","R","S","T","U","V","W","X","Y","Z">>

LowerSeq == <<"a","b","c","d","e","f","g","h","i","j","k","l","m",
              "n","o","p","q","r","s","t","u","v","w","x","y","z">>

LowerChar(c) ==
    IF c \in Upper THEN LowerSeq[CHOOSE i \in 1..26 : UpperSeq[i] = c] ELSE c

ToLower(s) == [i \in 1..Len(s) |-> LowerChar(s[i])]

\* a keyword of the list occurs in s in some letter case
AnyKeywordAnyCase(keywords, s) ==
    \E k \in 1..Len(keywords) : Contains(ToLower(s), ToLower(keywords[k]))

CompanySignal(a) ==
    \/ AnyKeyword(company_keywords, a.affiliation)
    \/ Search(email_company_patterns, a.email) # <<>>

ClaimedNonAcademic(a) ==
    /\ ~AnyKeyword(academic_keywords, a.affiliation)
    /\ CompanySignal(a)

\* C2: an author is marked non-academic if and only if the affiliation
\* holds no academic keyword and (the affiliation holds a company keyword or
\* the email has a commercial domain); the keywords and the domain test are
\* taken as the code takes them, so that only the way the three signals are
\* combined is at stake.
C2_NonAcademicIffNoAcademicAndCompany ==
    result.called => result.value = SelectSeq(authors, ClaimedNonAcademic)

Kept(a) == a \in Range(result.value)

\* C3: an author whose affiliation holds an academic keyword in any letter
\* case together with a company keyword is classified academic (stated for
\* authors without an email, so that the email signal plays no part).
C3_AcademicOverridesAnyCase ==
    result.called =>
        \A i \in 1..Len(authors) :
            ( /\ authors[i].email = <<>>
              /\ AnyKeywordAnyCase(academic_keywords, authors[i].affiliation)
              /\ AnyKeywordAnyCase(company_keywords, authors[i].affiliation) )
            => ~Kept(authors[i])

\* C4: an author whose affiliation holds a company keyword in any letter
\* case and no academic keyword is classified non-academic, whatever the
\* email is.
C4_CompanyKeywordAnyCase ==
    result.called =>
        \A i \in 1..Len(authors) :
            ( /\ AnyKeywordAnyCase(company_keywords, authors[i].affiliation)
              /\ ~AnyKeywordAnyCase(academic_keywords, authors[i].affiliation) )
            => Kept(authors[i])

NonAcademicPositions == {i \in 1..Len(authors) : IsNonAcademic(authors[i])}

\* the j-th smallest element of a set of positions
Nth(P, j) == CHOOSE i \in P : Cardinality({k \in P : k <= i}) = j

UniversityEduAuthor ==
    [name |-> <<"J","o","h","n"," ","D","o","e">>, affiliation |-> <<"H","a","r","v","a","r","d"," ","U","n","i","v","e","r","s","i","t","y">>,
     email |-> <<"j","a","n","e","@","h","a","r","v","a","r","d",".","e","d","u">>]

CompanyAuthor ==
    [name |-> <<"J","o","h","n"," ","D","o","e">>, affiliation |-> <<"G","e","n","e","n","t","e","c","h"," ","I","n","c",".">>,
     email |-> <<"j","o","h","n",".","d","o","e","@","g","e","n","e","n","t","e","c","h",".","c","o","m">>]

\* C10: the result is the subsequence of the input at the positions of the
\* authors classified non-academic, in the original order, each entry
\* unaltered and repeated as often as it occurs; the author at Harvard
\* University with an .edu address is left out and the author at Genentech
\* Inc. is kept.
C10_ResultIsOrderedSubsequence ==
    result.called =>
        /\ Len(result.value) = Cardinality(NonAcademicPositions)
        /\ \A j \in 1..Len(result.value) :
               result.value[j] = authors[Nth(NonAcademicPositions, j)]
        /\ \A i \in 1..Len(authors) :
               /\ authors[i] = UniversityEduAuthor => ~Kept(authors[i])
               /\ authors[i] = CompanyAuthor => Kept(authors[i])

\* a non-academic author occurs twice in the input and twice in the result
C10_Witness ==
    /\ result.called
    /\ Len(authors) = 2
    /\ authors[1] = CompanyAuthor /\ authors[2] = CompanyAuthor
    /\ result.value = <<CompanyAuthor, CompanyAuthor>>

----------------------------------------------------------------------------
(* Properties of the loop body *)

Normalized == NormalizeAuthors(article.authors)

NonAcademic == identify_non_academic_authors(Normalized)

\* next((a["email"] for a in authors if a["email"]), "")
RECURSIVE FirstNonEmptyEmail(_)
FirstNonEmptyEmail(as) ==
    IF as = <<>> THEN <<>>
    ELSE IF Head(as).email # <<>> THEN Head(as).email
    ELSE FirstNonEmptyEmail(Tail(as))

\* C6: the row's Corresponding Author Email is the email of the first
\* author, in the original order, who is classified non-academic and has a
\* non-empty email, and is empty when no non-academic author has one.
C6_EmailOfFirstNonAcademicAuthor ==
    row.kind = "row" =>
        row.CorrespondingAuthorEmail = FirstNonEmptyEmail(NonAcademic)

NA == <<"N", "/", "A">>

HasText(elem) == elem.present /\ elem.text # None

\* C7: the loop body completes for every record, whichever fields are
\* missing or have no text, and the fields it yields are never None: title
\* and date are the element's text, or "N/A" when there is none.
C7_NormalizationNeverFails ==
    row # NoRowYet =>
        /\ row.kind # "raised"
        /\ row.kind = "row" =>
             /\ row.Title = IF HasText(article.title) THEN article.title.text ELSE NA
             /\ row.PublicationDate =
                    IF HasText(article.year) THEN article.year.text ELSE NA
             /\ row.PubmedID # None

SemicolonSpace == <<";", " ">>

DeduplicatedAffiliations == Range(Affiliations(NonAcademic))

\* C9, as claimed: the Non-academic Author(s) field is the non-academic
\* author names joined with "; " and the Company Affiliation(s) field is the
\* de-duplicated affiliations joined with ", ".
C9_NamesJoinedWithSemicolon ==
    row.kind = "row" =>
        /\ row.NonAcademicAuthors = Join(SemicolonSpace, Names(NonAcademic))
        /\ \E o \in Orders(DeduplicatedAffiliations) :
               row.CompanyAffiliations = Join(CommaSpace, o)

\* C9, as amended: both fields are joined with ", ": the names of the
\* non-academic authors in their order, and the de-duplicated affiliations
\* in some order.
C9_BothFieldsJoinedWithComma ==
    row.kind = "row" =>
        /\ row.NonAcademicAuthors = Join(CommaSpace, Names(NonAcademic))
        /\ \E o \in Orders(DeduplicatedAffiliations) :
               row.CompanyAffiliations = Join(CommaSpace, o)

\* a row of two non-academic authors with two different affiliations
C9_Witness ==
    /\ row.kind = "row"
    /\ Len(NonAcademic) = 2
    /\ Cardinality(DeduplicatedAffiliations) = 2
    /\ Contains(row.NonAcademicAuthors, CommaSpace)

----------------------------------------------------------------------------
(* Properties of the run *)

Ended == pc \in {"returned", "done", "crashed"}

DetailsParsed ==
    /\ requests # <<>>
    /\ requests[Len(requests)] = Request("efetch", "ok")

\* the loop reaches line 68 for the i-th article of the batch, and
\* identify_non_academic_authors returns at least one of its authors
IdentifyReturnsSome(i) ==
    /\ \A k \in 1..(i - 1) : RaisedTypeError \notin LoopBody(root[k])
    /\ \A a \in 1..Len(root[i].authors) : ~AuthorRaises(root[i].authors[a])
    /\ identify_non_academic_authors(NormalizeAuthors(root[i].authors)) # <<>>

RowFor(art) ==
    \E j \in 1..Len(papers) : papers[j].PubmedID = art.pmid.text

\* C1: of a batch handed to the loop of fetch_paper_details, an article has
\* a row in the result if and only if identify_non_academic_authors returns
\* at least one of its authors.
C1_RowIffNonAcademicAuthor ==
    (Ended /\ DetailsParsed) =>
        \A i \in 1..Len(root) : RowFor(root[i]) <=> IdentifyReturnsSome(i)

Failed(r) == r.outcome \in {"neterror", "httperror"}

\* C8: after a network or HTTP failure of the search or of the detail
\* fetch, fetcher has returned the empty list, no exception has left it,
\* and save_to_csv does what it does for an empty result.
C8_FailureGivesEmptyResult ==
    (\E k \in 1..Len(requests) : Failed(requests[k])) =>
        /\ pc \in {"returned", "done"}
        /\ papers = <<>>
        /\ pc = "done" => output = [kind |-> "message", rows |-> <<>>]

\* the detail fetch failed after a search that returned IDs, and main ended
C8_Witness ==
    /\ pc = "done"
    /\ Len(requests) = 2
    /\ requests[1] = Request("esearch", "ok")
    /\ Failed(requests[2])
    /\ output.kind = "message"

----------------------------------------------------------------------------
(* Properties of two passes over the same article *)

\* C11: building the row for the same article twice yields identical rows:
\* every field, the Company Affiliation(s) string included, is a function
\* of the article alone, whatever the interpreter's hash seed and the
\* iteration order of the set.
C11_RebuildYieldsSameRow ==
    row2 # NoRowYet => row2 = row

----------------------------------------------------------------------------
(* Properties of the email signal of identify_non_academic_authors *)

CommercialExtensions == { <<"c","o","m">>, <<"n","e","t">>, <<"o","r","g">>, <<"c","o">>, <<"b","i","z">> }

Dots(e) == {i \in 1..Len(e) : e[i] = "."}

\* the text after the last dot of an address, or nothing
FinalExtension(e) ==
    IF Dots(e) = {} THEN <<>>
    ELSE SubSeq(e, (CHOOSE i \in Dots(e) : \A j \in Dots(e) : j <= i) + 1, Len(e))

EndsInCommercialExtension(e) ==
    /\ Contains(e, <<"@">>)
    /\ FinalExtension(e) \in CommercialExtensions

\* C12: the email signal fires exactly when the final dot-extension of the
\* email is one of com, net, org, co, biz.  The signal is read off the
\* result: an author whose affiliation holds no company keyword is returned
\* if and only if the signal fires.
C12_EmailSignalIffCommercialExtension ==
    result.called =>
        \A i \in 1..Len(authors) :
            ~AnyKeyword(company_keywords, authors[i].affiliation) =>
                (Kept(authors[i]) <=> EndsInCommercialExtension(authors[i].email))

----------------------------------------------------------------------------
(* Properties of the requests of a run *)

Url(k) == requests[k].url

\* C13: a run issues at most one search request and at most one detail
\* fetch, in that order; the detail fetch follows a search that succeeded
\* and returned at least one ID, and nothing follows a request that failed.
C13_SearchThenAtMostOneFetch ==
    /\ Len(requests) <= 2
    /\ Len(requests) >= 1 => Url(1) = "esearch"
    /\ Len(requests) = 2 =>
          /\ Url(2) = "efetch"
          /\ requests[1].outcome = "ok"
          /\ pmids # <<>>
    /\ \A k \in 1..(Len(requests) - 1) : requests[k].outcome = "ok"
    /\ pc = "start" <=> requests = <<>>

\* both requests were issued, the second after IDs came back
C13_Witness ==
    /\ Len(requests) = 2
    /\ Url(1) = "esearch" /\ Url(2) = "efetch"
    /\ requests[2].outcome = "ok"
    /\ pmids # <<>>
    /\ pc = "done"

====
